---- MODULE Spec2Model ----
(***************************************************************************)
(* Industry matcher of MatchMeToJobs.                                      *)
(*                                                                         *)
(* Two implementations of IndustryMatchingService exist in the repository: *)
(*   - the embedding variant  (src/src/services/industryMatchingService.ts)*)
(*   - the heuristic + AI refinement variant (src/unnamed/part_010).       *)
(* Both are modelled; the variable `variant` says which one an instance    *)
(* runs.                                                                   *)
(*                                                                         *)
(* Strings are sequences of one-character strings, so that trim, split,    *)
(* toLowerCase and includes are computed as JavaScript computes them.      *)
(* Scores and similarities are exact rationals (numerator, denominator);   *)
(* floating-point rounding is not modelled.                                *)
(***************************************************************************)
EXTENDS Integers, Sequences, FiniteSets, TLC

(***************************************************************************)
(* Bounds of the model.                                                    *)
(***************************************************************************)
\* Calls of matchIndustries made on the one matcher instance.
MaxCalls == 2
\* Entries of the loaded taxonomy.
NumEntries == 18
\* Longest repeating pattern of matches in a generative response.
MaxPattern == 2
\* Records of the minimal dataset industryCodes.json.
MaxRecords == 2
\* Company-search requests served by one process.
MaxRequests == 2

(***************************************************************************)
(* Program constants.                                                      *)
(***************************************************************************)
\* .slice(0, 8)
MaxResults == 8
\* .slice(0, 15)
MaxCandidates == 15
\* candidates.slice(0, 5) when the refinement keeps nothing
EmptyRefinementTake == 5
\* candidates.length <= 3 skips the refinement
FewCandidates == 3
\* z.array(...).min(1).max(10)
SchemaMinMatches == 1
SchemaMaxMatches == 10
\* relevance: z.number().min(1).max(10)
SchemaMinRelevance == 1
SchemaMaxRelevance == 10
\* match.relevance >= 6
MinRelevance == 6
\* scraper.searchCompanies(validatedParams, 2, industryCodes)
CompanySearchMaxPages == 2
\* allabolagScraper.searchCompanies(validatedParams, 3, industryCodes)
JobSearchMaxPages == 3

(***************************************************************************)
(* Generic helpers.                                                        *)
(***************************************************************************)
Min(a, b) == IF a < b THEN a ELSE b

Max(a, b) == IF a > b THEN a ELSE b

SetMin(S) == CHOOSE x \in S : \A y \in S : x <= y

SetMax(S) == CHOOSE x \in S : \A y \in S : x >= y

\* Array.prototype.slice(0, k)
Take(s, k) == SubSeq(s, 1, Min(Len(s), k))

\* The element of a one-element set.  Binding a computed value with
\* x \in {e} has TLC compute e once.
The(S) == CHOOSE elem \in S : TRUE

\* Faulty variant of SortedPlaces: an unstable sort that puts equal keys in
\* reverse order.
SortedPlacesTiesReversed(keys) ==
  [i \in 1..Len(keys) |->
     Cardinality({j \in 1..Len(keys) :
                     \/ keys[j].num * keys[i].den > keys[i].num * keys[j].den
                     \/ (keys[j].num * keys[i].den = keys[i].num * keys[j].den /\ j > i)}) + 1]

\* Where a stable descending sort puts each index: behind every index with a
\* strictly greater key and behind every earlier index with an equal key.
\* keys[i] is the key of element i, an exact rational.
SortedPlaces(keys) ==
  [i \in 1..Len(keys) |->
     Cardinality({j \in 1..Len(keys) :
                     \/ keys[j].num * keys[i].den > keys[i].num * keys[j].den
                     \/ (keys[j].num * keys[i].den = keys[i].num * keys[j].den /\ j < i)}) + 1]

\* Array.prototype.sort((a, b) => key(b) - key(a)): stable, descending.
SortDesc(s, keys) ==
  The({[p \in 1..Len(s) |-> s[CHOOSE i \in 1..Len(s) : place[i] = p]] :
         place \in {SortedPlaces(keys)}})

Range(s) == {s[i] : i \in 1..Len(s)}

NoDuplicates(s) == \A i, j \in 1..Len(s) : s[i] = s[j] => i = j

\* The sequence of length len that repeats pattern.
Repeat(pattern, len) == [i \in 1..len |-> pattern[((i - 1) % Len(pattern)) + 1]]

(***************************************************************************)
(* JavaScript strings.                                                     *)
(***************************************************************************)
Whitespace == {" ", "\t"}

ToLowerChar(ch) ==
  CASE ch = "W" -> "w"
    [] ch = "S" -> "s"
    [] ch = "F" -> "f"
    [] ch = "B" -> "b"
    [] OTHER -> ch

\* String.prototype.toLowerCase
ToLowerCase(s) == [i \in 1..Len(s) |-> ToLowerChar(s[i])]

\* String.prototype.trim
Trim(s) ==
  LET idx == {i \in 1..Len(s) : s[i] \notin Whitespace}
  IN IF idx = {} THEN << >> ELSE SubSeq(s, SetMin(idx), SetMax(idx))

\* String.prototype.split(/[seps]+/): the pieces between maximal runs of
\* separators; a leading or trailing run leaves an empty piece, and the empty
\* string splits into one empty piece.
RECURSIVE SplitRec(_, _, _, _)
SplitRec(s, seps, i, cur) ==
  IF i > Len(s) THEN << cur >>
  ELSE IF s[i] \in seps
       THEN IF i > 1 /\ s[i - 1] \in seps
            THEN SplitRec(s, seps, i + 1, cur)
            ELSE << cur >> \o SplitRec(s, seps, i + 1, << >>)
       ELSE SplitRec(s, seps, i + 1, Append(cur, s[i]))

Split(s, seps) == SplitRec(s, seps, 1, << >>)

\* String.prototype.includes
Includes(s, t) ==
  /\ Len(t) <= Len(s)
  /\ \E i \in 0..(Len(s) - Len(t)) : SubSeq(s, i + 1, i + Len(t)) = t

\* String.prototype.substring(0, k)
Substring0(s, k) == SubSeq(s, 1, Min(Len(s), k))

\* Array.prototype.join(" ")
RECURSIVE JoinSpace(_)
JoinSpace(parts) ==
  IF parts = << >> THEN << >>
  ELSE IF Len(parts) = 1 THEN parts[1]
  ELSE parts[1] \o << " " >> \o JoinSpace(Tail(parts))

\* .filter((word) => word.length > 2)
LongWords(words) == SelectSeq(words, LAMBDA w : Len(w) > 2)

(***************************************************************************)
(* The taxonomy (src/data/enrichedIndustryCodes.json) and the queries.     *)
(* A code is a natural number; 0 is a code of no entry.                    *)
(***************************************************************************)
Str_web == << "w", "e", "b" >>
Str_Web_dev == << "W", "e", "b", " ", "d", "e", "v" >>
Str_web_devs == << "w", "e", "b", " ", "d", "e", "v", "s" >>
Str_code == << "c", "o", "d", "e" >>
Str_Food == << "F", "o", "o", "d" >>
Str_Bank == << "B", "a", "n", "k" >>
Str_bank_loan == << "b", "a", "n", "k", " ", "l", "o", "a", "n" >>
Str_loan == << "l", "o", "a", "n" >>
Str_Shop == << "S", "h", "o", "p" >>
Str_shop == << "s", "h", "o", "p" >>
Str_shops == << "s", "h", "o", "p", "s" >>
Str_sale == << "s", "a", "l", "e" >>
Str_Farm == << "F", "a", "r", "m" >>
Str_farm == << "f", "a", "r", "m" >>
Str_crop == << "c", "r", "o", "p" >>
Str_it == << "i", "t" >>
Str_hop == << "h", "o", "p" >>
Str_shop_farm == << "s", "h", "o", "p", " ", "f", "a", "r", "m" >>
Str_blank == << " ", "\t" >>
Str_empty == << >>

\* Entry number i of the dataset: three distinct industries, then many shops
\* and farms.  The second entry has an empty description and no keywords.
Entry(i) ==
  CASE i = 1 -> [code |-> 1, name |-> Str_Web_dev, description |-> Str_web_devs,
                 keywords |-> << Str_web, Str_code >>]
    [] i = 2 -> [code |-> 2, name |-> Str_Food, description |-> Str_empty,
                 keywords |-> << >>]
    [] i = 3 -> [code |-> 3, name |-> Str_Bank, description |-> Str_bank_loan,
                 keywords |-> << Str_loan >>]
    [] i > 3 /\ i % 2 = 0 -> [code |-> i, name |-> Str_Shop, description |-> Str_shops,
                              keywords |-> << Str_sale >>]
    [] OTHER -> [code |-> i, name |-> Str_Farm, description |-> Str_farm,
                 keywords |-> << Str_crop >>]

Dataset == [i \in 1..NumEntries |-> Entry(i)]

Taxonomies == {Dataset}

Codes(taxonomy) == {taxonomy[i].code : i \in 1..Len(taxonomy)}

\* A code that no entry of the dataset carries.
ForeignCode == SetMin({Entry(i).code : i \in 1..NumEntries}) - 1

\* The industryDescription arguments of the modelled calls.
BlankQueries == {Str_empty, Str_blank}

HeuristicQueries == {Str_it, Str_web, Str_shop, Str_shop_farm, Str_hop}

EmbeddingQueries == {Str_web, Str_shop_farm}

(***************************************************************************)
(* Exact rationals num/den with den > 0, for scores.                       *)
(***************************************************************************)
RatGT(a, b) == a.num * b.den > b.num * a.den

\* Math.min(a, b) for a number b: a when a is NaN.
RatMin(a, b) == IF RatGT(a, b) THEN b ELSE a

(***************************************************************************)
(* Lexical scorer: calculateSimilarityScores and areSimilar.               *)
(***************************************************************************)
areSimilar(word1, word2) ==
  IF Len(word1) < 4 \/ Len(word2) < 4 THEN FALSE
  ELSE IF Len(word1) >= 3 /\ Includes(word2, Substring0(word1, 3)) THEN TRUE
  ELSE IF Len(word2) >= 3 /\ Includes(word1, Substring0(word2, 3)) THEN TRUE
  ELSE FALSE

\* A JavaScript number that is a ratio of counts: num/den, or NaN (0/0), which
\* is written with den = 0 and is neither greater nor less than any number.
NaN == [num |-> 0, den |-> 0]

IsNaN(x) == x.den = 0

RatAdd(a, b) ==
  IF IsNaN(a) \/ IsNaN(b) THEN NaN
  ELSE IF a.den = b.den THEN [num |-> a.num + b.num, den |-> a.den]
  ELSE [num |-> a.num * b.den + b.num * a.den, den |-> a.den * b.den]

\* The terms of a score for a query of q words are kept over the denominator
\* 10 * max(q, 1): tenths of the weights, divided by q in the ratio terms.
TermDen(queryWords) == 10 * Max(Len(queryWords), 1)

\* (matched.length / queryWords.length) * weight, weight in tenths; 0 / 0 is NaN.
Ratio(matched, queryWords, tenths) ==
  IF Len(queryWords) = 0
  THEN NaN
  ELSE [num |-> tenths * Len(matched), den |-> TermDen(queryWords)]

\* Faulty variant of RatioIfAny: the test of matched.length is left out.
RatioAlways(matched, queryWords, tenths) == Ratio(matched, queryWords, tenths)

\* if (matched.length > 0) score += (matched.length / queryWords.length) * weight
RatioIfAny(matched, queryWords, tenths) ==
  IF Len(matched) > 0 THEN Ratio(matched, queryWords, tenths)
  ELSE [num |-> 0, den |-> TermDen(queryWords)]

\* [name, description, ...keywords], lower-cased, joined by " "
searchTextOf(industry) ==
  JoinSpace(<< ToLowerCase(industry.name), ToLowerCase(industry.description) >>
            \o [k \in 1..Len(industry.keywords) |-> ToLowerCase(industry.keywords[k])])

\* 1. Exact phrase match: 1.0 when searchText includes the normalized query.
exactTerm(normalizedQuery, queryWords, industry) ==
  [num |-> IF Includes(searchTextOf(industry), normalizedQuery) THEN TermDen(queryWords) ELSE 0,
   den |-> TermDen(queryWords)]

\* 2. Word overlap: the query words that contain, are contained in, or are
\* similar to a word (longer than 2) of searchText; weight 0.8.
commonWordsOf(queryWords, industry) ==
  LET searchWords == LongWords(Split(searchTextOf(industry), Whitespace))
  IN SelectSeq(queryWords, LAMBDA qWord :
       \E j \in 1..Len(searchWords) :
          \/ Includes(searchWords[j], qWord)
          \/ Includes(qWord, searchWords[j])
          \/ areSimilar(qWord, searchWords[j]))

overlapTerm(normalizedQuery, queryWords, industry) ==
  RatioIfAny(commonWordsOf(queryWords, industry), queryWords, 8)

\* 3. Keyword matches: the keywords that the query includes or that include
\* a query word; 0.3 each.
keywordMatchesOf(normalizedQuery, queryWords, industry) ==
  SelectSeq(industry.keywords, LAMBDA keyword :
    \/ Includes(normalizedQuery, ToLowerCase(keyword))
    \/ \E j \in 1..Len(queryWords) : Includes(ToLowerCase(keyword), queryWords[j]))

keywordTerm(normalizedQuery, queryWords, industry) ==
  [num |-> 3 * Max(Len(queryWords), 1)
             * Len(keywordMatchesOf(normalizedQuery, queryWords, industry)),
   den |-> TermDen(queryWords)]

\* 4. Description relevance: the query words that contain or are contained in
\* a piece of the description split at whitespace (pieces of any length,
\* the empty piece of an empty description included); weight 0.5.
descMatchesOf(queryWords, industry) ==
  LET descWords == Split(ToLowerCase(industry.description), Whitespace)
  IN SelectSeq(queryWords, LAMBDA qWord :
       \E j \in 1..Len(descWords) :
          \/ Includes(descWords[j], qWord)
          \/ Includes(qWord, descWords[j]))

descriptionTerm(normalizedQuery, queryWords, industry) ==
  RatioIfAny(descMatchesOf(queryWords, industry), queryWords, 5)

\* The score of one entry: the sum of the four terms, Math.min(score, 2.0).
ScoreEntry(normalizedQuery, queryWords, industry) ==
  LET score == RatAdd(RatAdd(exactTerm(normalizedQuery, queryWords, industry),
                             overlapTerm(normalizedQuery, queryWords, industry)),
                      RatAdd(keywordTerm(normalizedQuery, queryWords, industry),
                             descriptionTerm(normalizedQuery, queryWords, industry)))
  IN RatMin(score, [num |-> 2 * TermDen(queryWords), den |-> TermDen(queryWords)])

\* query.toLowerCase()
normalizedQueryOf(query) == ToLowerCase(query)

\* normalizedQuery.split(/\s+/).filter((word) => word.length > 2)
queryWordsOf(query) == LongWords(Split(normalizedQueryOf(query), Whitespace))

calculateSimilarityScores(query, taxonomy) ==
  LET normalizedQuery == normalizedQueryOf(query)
      queryWords == queryWordsOf(query)
  IN [i \in 1..Len(taxonomy) |->
        [code |-> taxonomy[i].code, name |-> taxonomy[i].name,
         score |-> ScoreEntry(normalizedQuery, queryWords, taxonomy[i])]]

\* Faulty variant of AboveThreshold: the filter is left out.
AboveThresholdAll(scored) == scored

\* Step 2 of matchIndustries: filter score > 0.1, sort descending, slice(0, 15).
AboveThreshold(scored) == SelectSeq(scored, LAMBDA c : RatGT(c.score, [num |-> 1, den |-> 10]))

\* Faulty variant of ByScore: the sort is left out.
ByScoreUnsorted(cands) == cands

\* .sort((a, b) => b.score - a.score)
ByScore(cands) == SortDesc(cands, [i \in 1..Len(cands) |-> cands[i].score])

TopCandidates(query, taxonomy) ==
  Take(ByScore(AboveThreshold(calculateSimilarityScores(query, taxonomy))), MaxCandidates)

CodesOf(cands) == [i \in 1..Len(cands) |-> cands[i].code]

(***************************************************************************)
(* Embedding capability (embed, embedMany, cosineSimilarity of "ai").      *)
(***************************************************************************)
\* JavaScript's undefined where a vector is expected, written as the vector
\* without components (which the capability never answers), so that it can
\* be compared with vectors.
Undefined == << >>

Vec_x == << 1, 0 >>
Vec_xy == << 1, 1 >>
Vec_xxxxy == << 4, 1 >>
Vec_y == << 0, 1 >>
\* A vector of another dimension: a malformed answer of the capability.
Vec_short == << 1 >>

\* What embedMany answers for the taxonomy texts: text number i gets vector
\* number ((i - 1) mod length) + 1 of the pattern.  The capability is fixed
\* for the lifetime of an instance.
EmbedModels == {<< Vec_xy >>, << Vec_x, Vec_xy >>, << Vec_x, Vec_xxxxy >>,
                << Vec_xxxxy, Vec_x, Vec_xy >>}

\* What embed may answer for a query.
QueryVectors == {Vec_x, Vec_y, Vec_short}

RECURSIVE DotRec(_, _, _)
DotRec(a, b, i) == IF i > Len(a) THEN 0 ELSE a[i] * b[i] + DotRec(a, b, i + 1)

Dot(a, b) == DotRec(a, b, 1)

\* cosineSimilarity(a, b) = dot / (|a| |b|), for vectors of one dimension.
\* Kept as the exact rational sign(dot) * dot^2 / (|a|^2 |b|^2), its image
\* under the increasing map x |-> sign(x) * x^2, so that comparisons of two
\* similarities and with a threshold are exact.  A zero vector gives 0.
cosineSimilarity(a, b) ==
  LET d == Dot(a, b)
      n == Dot(a, a) * Dot(b, b)
  IN IF n = 0 THEN [num |-> 0, den |-> 1]
     ELSE [num |-> (IF d < 0 THEN 0 - d * d ELSE d * d), den |-> n]

\* similarity > 0.3, i.e. sign(s) * s^2 > 0.09
AboveSimilarityThreshold(sim) == RatGT(sim, [num |-> 9, den |-> 100])

\* this.industryEmbeddings: a Map from code to vector; a key may hold undefined.
EmptyMap == [code \in {} |-> Undefined]

\* Faulty variant of MapSize: the size is counted one too high, so that an
\* empty cache passes for a generated one.
MapSizePlusOne(map) == Cardinality(DOMAIN map) + 1

MapSize(map) == Cardinality(DOMAIN map)

\* Faulty variant of SetAllEmbeddings: populating a cache that already holds
\* entries empties it instead.
SetAllEmbeddingsOrReset(map, taxonomy, embeddings) ==
  IF DOMAIN map # {} THEN [code \in {} |-> Undefined]
  ELSE [code \in Codes(taxonomy) |->
          LET last == SetMax({i \in 1..Len(taxonomy) : taxonomy[i].code = code})
          IN IF last <= Len(embeddings) THEN embeddings[last] ELSE Undefined]

\* this.enrichedCodes.forEach((industry, index) =>
\*   this.industryEmbeddings.set(industry.code, embeddings[index]))
SetAllEmbeddings(map, taxonomy, embeddings) ==
  [code \in (DOMAIN map) \cup Codes(taxonomy) |->
     IF code \in Codes(taxonomy)
     THEN LET last == SetMax({i \in 1..Len(taxonomy) : taxonomy[i].code = code})
          IN IF last <= Len(embeddings) THEN embeddings[last] ELSE Undefined
     ELSE map[code]]

\* The map callback of matchIndustries throws when an embedding is missing
\* (absent or undefined); cosineSimilarity throws on vectors of different
\* lengths.
ScoringThrows(taxonomy, map, queryEmbedding) ==
  \E i \in 1..Len(taxonomy) :
     \/ taxonomy[i].code \notin DOMAIN map
     \/ map[taxonomy[i].code] = Undefined
     \/ Len(map[taxonomy[i].code]) # Len(queryEmbedding)

scoredIndustries(taxonomy, map, queryEmbedding) ==
  [i \in 1..Len(taxonomy) |->
     [code |-> taxonomy[i].code, name |-> taxonomy[i].name,
      similarity |-> cosineSimilarity(queryEmbedding, map[taxonomy[i].code])]]

\* Faulty variant of BySimilarity: the sort is left out.
ByTaxonomyOrder(scored) == scored

BySimilarity(scored) == SortDesc(scored, [i \in 1..Len(scored) |-> scored[i].similarity])

\* Faulty variant of topMatches: the slice is left out.
topMatchesNoSlice(scored) ==
  BySimilarity(SelectSeq(scored, LAMBDA e : AboveSimilarityThreshold(e.similarity)))

\* Faulty variant of topMatches: the filter is left out.
topMatchesNoFilter(scored) == Take(BySimilarity(scored), MaxResults)

\* .filter(similarity > 0.3).sort(descending).slice(0, 8)
topMatches(scored) ==
  Take(BySimilarity(SelectSeq(scored, LAMBDA e : AboveSimilarityThreshold(e.similarity))),
       MaxResults)

(***************************************************************************)
(* Generative capability and refineWithAI (heuristic variant).             *)
(***************************************************************************)
Ok(v) == [threw |-> FALSE, value |-> v]

Thrown == [threw |-> TRUE, value |-> << >>]

\* The codes and relevances a generative answer may name: a foreign code, an
\* entry that is no candidate for the refined query, and two candidates;
\* relevances below and above the threshold and one outside the schema.
AICodes == {ForeignCode, Entry(1).code, Entry(4).code, Entry(5).code}

AIRelevances == {MinRelevance - 1, MinRelevance, SchemaMaxRelevance - 1, SchemaMaxRelevance + 1}

AIItems == [code : AICodes, relevance : AIRelevances]

AIPatterns == UNION {[1..k -> AIItems] : k \in 1..MaxPattern}

\* The matches array of an answer: a pattern repeated to a length, the codes
\* either repeated as they are (step 0) or counted upwards (step 1).
AIMatches(pattern, len, step) ==
  [i \in 1..len |->
     [code |-> Repeat(pattern, len)[i].code + step * (i - 1),
      relevance |-> Repeat(pattern, len)[i].relevance]]

NoResponse == [kind |-> "none", json |-> "none", matches |-> << >>]

\* What messages.create may resolve to:
\*   kind "nocontent": response.content is empty;
\*   kind "nontext":   content[0] is not a text block;
\*   kind "text" with json
\*     "none":     the text holds no {...};
\*     "invalid":  JSON.parse throws on the matched text;
\*     "badshape": the parsed value has not the types of the schema;
\*     "matches":  the parsed value is {matches: [{code, name, relevance}..]}.
AIResponses ==
  {[kind |-> "nocontent", json |-> "none", matches |-> << >>],
   [kind |-> "nontext", json |-> "none", matches |-> << >>],
   [kind |-> "text", json |-> "none", matches |-> << >>],
   [kind |-> "text", json |-> "invalid", matches |-> << >>],
   [kind |-> "text", json |-> "badshape", matches |-> << >>]}
  \cup {[kind |-> "text", json |-> "matches", matches |-> AIMatches(p, len, step)] :
          p \in AIPatterns, len \in 0..(SchemaMaxMatches + 1), step \in {0, 1}}

\* industryMatchSchema.parse succeeds
SchemaAccepts(resp) ==
  /\ resp.json = "matches"
  /\ Len(resp.matches) >= SchemaMinMatches
  /\ Len(resp.matches) <= SchemaMaxMatches
  /\ \A i \in 1..Len(resp.matches) :
        /\ resp.matches[i].relevance >= SchemaMinRelevance
        /\ resp.matches[i].relevance <= SchemaMaxRelevance

\* Faulty variant of SkipsRefinement: the test of the top score is left out.
SkipsRefinementFewOnly(candidates) == Len(candidates) <= FewCandidates

\* if (candidates.length <= 3 || candidates[0].score > 1.5)
SkipsRefinement(candidates) ==
  \/ Len(candidates) <= FewCandidates
  \/ RatGT(candidates[1].score, [num |-> 15, den |-> 10])

\* Faulty variant of HeuristicFallback: the slice of the empty refinement.
HeuristicFallbackFive(candidates) == Take(CodesOf(candidates), EmptyRefinementTake)

\* candidates.slice(0, 8).map((c) => c.code)
HeuristicFallback(candidates) == Take(CodesOf(candidates), MaxResults)

\* Faulty variant of validMatches: the candidateCodes.has test is left out.
validMatchesAnyCode(candidates, matches) ==
  SelectSeq(matches, LAMBDA m : m.relevance >= MinRelevance)

\* validatedData.matches.filter(candidateCodes.has(code) && relevance >= 6)
validMatches(candidates, matches) ==
  SelectSeq(matches, LAMBDA m : m.code \in Range(CodesOf(candidates)) /\ m.relevance >= MinRelevance)

\* validMatches.sort((a, b) => b.relevance - a.relevance).map((m) => m.code)
ByRelevance(valid) ==
  SortDesc(valid, [i \in 1..Len(valid) |-> [num |-> valid[i].relevance, den |-> 1]])

matchedCodes(candidates, matches) == CodesOf(ByRelevance(validMatches(candidates, matches)))

\* The try block of refineWithAI after the await.
RefineTry(candidates, resp) ==
  IF resp.kind # "text" THEN Thrown
  ELSE IF resp.json = "none" THEN Ok(HeuristicFallback(candidates))
  ELSE IF resp.json = "invalid" THEN Thrown
  ELSE IF ~SchemaAccepts(resp) THEN Thrown
  ELSE LET matched == matchedCodes(candidates, resp.matches)
       IN Ok(IF Len(matched) > 0 THEN matched
             ELSE Take(CodesOf(candidates), EmptyRefinementTake))

\* Faulty variant of RefineCatch: no catch, the error reaches matchIndustries.
RefineNoCatch(outcome, candidates) == outcome

\* The catch block of refineWithAI.
RefineCatch(outcome, candidates) ==
  IF outcome.threw THEN Ok(HeuristicFallback(candidates)) ELSE outcome

(***************************************************************************)
(* What a ranking leaves of this.enrichedCodes.  Array.prototype.map       *)
(* returns a new array of new objects ({...industry, score}), filter       *)
(* returns another array, and sort orders its receiver in place: the       *)
(* receiver is the array that filter returned.                             *)
(***************************************************************************)
\* Faulty variant of enrichedCodesAfterRanking: sort is called on
\* this.enrichedCodes itself.
enrichedCodesSortedInPlace(taxonomy, keys) == SortDesc(taxonomy, keys)

\* this.enrichedCodes after .map(...).filter(...).sort(...).slice(...)
enrichedCodesAfterRanking(taxonomy, keys) == taxonomy

\* getIndustryName(code): this.enrichedCodes.find(...)?.name || "Unknown"
\* find gives the first entry that carries the code; an absent entry and an
\* empty name both give "Unknown".
getIndustryName(taxonomy, code) ==
  LET found == {i \in 1..Len(taxonomy) : taxonomy[i].code = code}
  IN IF found # {} /\ taxonomy[SetMin(found)].name # << >>
     THEN taxonomy[SetMin(found)].name
     ELSE << "U", "n", "k", "n", "o", "w", "n" >>

(***************************************************************************)
(* State.                                                                  *)
(***************************************************************************)
VARIABLES
  variant,             \* "embedding" or "heuristic": which service the instance is
  enrichedCodes,       \* this.enrichedCodes, the loaded taxonomy
  embedModel,          \* what embedMany answers for the taxonomy texts, when it answers
  industryEmbeddings,  \* this.industryEmbeddings, the embedding cache
  writes,              \* per code, how often industryEmbeddings.set was called for it
  calls,               \* the calls of matchIndustries and where each stands
  overdue,             \* the calls whose capability call has taken longer than allowed
  loader,              \* the dataset files and what loadEnrichedCodes made of them
  server,              \* the process that serves POST /search
  requests,            \* the company-search requests and where each stands
  scorer,              \* one application of the lexical scorer to a query and an entry
  named                \* what getIndustryName was asked and what it answered

vars == << variant, enrichedCodes, embedModel, industryEmbeddings, writes, calls,
           overdue, loader, server, requests, scorer, named >>

\* The variables of one matcher instance and its calls.
matcherVars == << variant, enrichedCodes, embedModel, industryEmbeddings, writes, calls >>

Calls == 1..MaxCalls

\* pc: "idle" (not yet called), "awaitEmbedMany", "awaitEmbed", "awaitAI"
\* (suspended at that await), "done" (the promise resolved with result),
\* "rejected" (the promise rejected).
IdleCall ==
  [pc |-> "idle", query |-> << >>, result |-> << >>, path |-> "idle",
   usedEmbedMany |-> FALSE, usedEmbed |-> FALSE, usedAI |-> FALSE,
   failed |-> "none", queryEmbedding |-> << >>, ranked |-> << >>,
   response |-> NoResponse]

\* The capability of an instance that never calls embedMany.
NoEmbedModel == [vectors |-> << Vec_xy >>, complete |-> TRUE]

\* The loader, the server, its requests, the scorer and the lookups of names
\* where a specification does not follow them.
NoLoader == [pc |-> "unused"]

NoServer == [route |-> "none"]

NoRequests == << >>

NoScorer == [pc |-> "unused"]

\* getIndustryName has not been called.
NotNamed == << >>

\* The variables outside one matcher instance, where only the instance is followed.
otherVars == << loader, server, requests, scorer, named >>

Init ==
  /\ variant \in {"embedding", "heuristic"}
  /\ enrichedCodes \in Taxonomies
  /\ embedModel \in (IF variant = "embedding"
                      THEN [vectors : EmbedModels, complete : BOOLEAN]
                      ELSE {NoEmbedModel})
  /\ industryEmbeddings = EmptyMap
  /\ writes = [code \in Codes(enrichedCodes) |-> 0]
  /\ calls = [c \in Calls |-> IdleCall]
  /\ overdue = {}
  /\ loader = NoLoader
  /\ server = NoServer
  /\ requests = NoRequests
  /\ scorer = NoScorer
  /\ named = NotNamed

\* Calls are numbered in the order in which they are made.
MayStart(c) == calls[c].pc = "idle" /\ (IF c = 1 THEN TRUE ELSE calls[c - 1].pc # "idle")

\* Faulty variant of IsBlankQuery: the guard without trim().
IsEmptyQuery(q) == q = << >>

\* if (!industryDescription?.trim()) return [];
IsBlankQuery(q) == Trim(q) = << >>

(***************************************************************************)
(* Embedding variant: matchIndustries and generateIndustryEmbeddings.      *)
(***************************************************************************)
\* Faulty variant of Emb_matchIndustriesCatch: no catch, the error escapes.
Emb_matchIndustriesNoCatch(outcome) ==
  IF outcome.threw THEN [pc |-> "rejected", result |-> << >>]
  ELSE [pc |-> "done", result |-> outcome.value]

\* try { ... return matchedCodes } catch (error) { return [] }
Emb_matchIndustriesCatch(outcome) ==
  IF outcome.threw THEN [pc |-> "done", result |-> << >>]
  ELSE [pc |-> "done", result |-> outcome.value]

\* The call up to its first await.  A blank query returns at once.  Otherwise
\* generateIndustryEmbeddings returns at its guard when the cache holds a key
\* (and the call goes on to embed), or calls embedMany.
Emb_matchIndustries(c, q) ==
  /\ variant = "embedding"
  /\ MayStart(c)
  /\ calls' = [calls EXCEPT ![c] =
       IF IsBlankQuery(q)
       THEN [@ EXCEPT !.pc = "done", !.query = q, !.path = "blank"]
       ELSE IF MapSize(industryEmbeddings) > 0
       THEN [@ EXCEPT !.pc = "awaitEmbed", !.query = q, !.usedEmbed = TRUE]
       ELSE [@ EXCEPT !.pc = "awaitEmbedMany", !.query = q, !.usedEmbedMany = TRUE]]
  /\ UNCHANGED << variant, enrichedCodes, embedModel, industryEmbeddings, writes >>
  /\ UNCHANGED overdue /\ UNCHANGED otherVars

\* embedMany resolves with len vectors: every entry's code is set, to its
\* vector or to undefined when the answer is too short; then embed is called.
Emb_embedManyResolves(c, len) ==
  /\ variant = "embedding"
  /\ calls[c].pc = "awaitEmbedMany"
  /\ industryEmbeddings' =
       SetAllEmbeddings(industryEmbeddings, enrichedCodes, Repeat(embedModel.vectors, len))
  /\ writes' = [code \in DOMAIN writes |->
                  writes[code] + Cardinality({i \in 1..Len(enrichedCodes) :
                                                 enrichedCodes[i].code = code})]
  /\ calls' = [calls EXCEPT ![c] = [@ EXCEPT !.pc = "awaitEmbed", !.usedEmbed = TRUE]]
  /\ UNCHANGED << variant, enrichedCodes, embedModel >>
  /\ UNCHANGED overdue /\ UNCHANGED otherVars

\* embedMany rejects (or resolves without an embeddings array): the catch of
\* generateIndustryEmbeddings throws anew, the catch of matchIndustries returns.
Emb_embedManyRejects(c) ==
  /\ variant = "embedding"
  /\ calls[c].pc = "awaitEmbedMany"
  /\ LET final == Emb_matchIndustriesCatch(Thrown)
     IN calls' = [calls EXCEPT ![c] =
          [@ EXCEPT !.pc = final.pc, !.result = final.result,
                    !.failed = "embedMany", !.path = "threw"]]
  /\ UNCHANGED << variant, enrichedCodes, embedModel, industryEmbeddings, writes >>
  /\ UNCHANGED overdue /\ UNCHANGED otherVars

\* embed resolves with the query's vector: score, filter, sort, slice.
Emb_embedResolves(c, queryEmbedding) ==
  /\ variant = "embedding"
  /\ calls[c].pc = "awaitEmbed"
  /\ \E tried \in {IF ScoringThrows(enrichedCodes, industryEmbeddings, queryEmbedding)
                   THEN Thrown
                   ELSE Ok(topMatches(scoredIndustries(enrichedCodes, industryEmbeddings,
                                                       queryEmbedding)))} :
       /\ \E final \in {Emb_matchIndustriesCatch(
                          IF tried.threw THEN Thrown ELSE Ok(CodesOf(tried.value)))} :
             calls' = [calls EXCEPT ![c] =
               [@ EXCEPT !.pc = final.pc, !.result = final.result,
                         !.queryEmbedding = queryEmbedding,
                         !.ranked = tried.value,
                         !.path = IF tried.threw THEN "threw"
                                  ELSE IF tried.value = << >> THEN "none" ELSE "ranked"]]
       /\ enrichedCodes' =
            IF tried.threw THEN enrichedCodes
            ELSE enrichedCodesAfterRanking(enrichedCodes,
                   [i \in 1..Len(enrichedCodes) |->
                      cosineSimilarity(queryEmbedding,
                                       industryEmbeddings[enrichedCodes[i].code])])
  /\ UNCHANGED << variant, embedModel, industryEmbeddings, writes >>
  /\ UNCHANGED overdue /\ UNCHANGED otherVars

\* embed rejects: the catch of matchIndustries returns.
Emb_embedRejects(c) ==
  /\ variant = "embedding"
  /\ calls[c].pc = "awaitEmbed"
  /\ LET final == Emb_matchIndustriesCatch(Thrown)
     IN calls' = [calls EXCEPT ![c] =
          [@ EXCEPT !.pc = final.pc, !.result = final.result,
                    !.failed = "embed", !.path = "threw"]]
  /\ UNCHANGED << variant, enrichedCodes, embedModel, industryEmbeddings, writes >>
  /\ UNCHANGED overdue /\ UNCHANGED otherVars

(***************************************************************************)
(* Heuristic variant: matchIndustries and refineWithAI.  The instance      *)
(* keeps no state that a call writes, so one call is followed.             *)
(***************************************************************************)
\* try { ... return finalCodes } catch (error) { return [] }
Heu_matchIndustriesCatch(outcome) ==
  IF outcome.threw THEN [pc |-> "done", result |-> << >>]
  ELSE [pc |-> "done", result |-> outcome.value]

\* The call up to the await in refineWithAI: blank query, no candidate,
\* refinement skipped, or the generative call made.
Heu_matchIndustries(c, q) ==
  /\ variant = "heuristic"
  /\ c = 1
  /\ MayStart(c)
  /\ \E topCandidates \in {IF IsBlankQuery(q) THEN << >> ELSE TopCandidates(q, enrichedCodes)} :
     \E final \in {Heu_matchIndustriesCatch(Ok(HeuristicFallback(topCandidates)))} :
       calls' = [calls EXCEPT ![c] =
          IF IsBlankQuery(q)
          THEN [@ EXCEPT !.pc = "done", !.query = q, !.path = "blank"]
          ELSE IF Len(topCandidates) = 0
          THEN [@ EXCEPT !.pc = "done", !.query = q, !.path = "none"]
          ELSE IF SkipsRefinement(topCandidates)
          THEN [@ EXCEPT !.pc = final.pc, !.result = final.result, !.query = q,
                         !.ranked = topCandidates, !.path = "skipped"]
          ELSE [@ EXCEPT !.pc = "awaitAI", !.query = q, !.ranked = topCandidates,
                         !.usedAI = TRUE]]
  /\ enrichedCodes' =
       IF IsBlankQuery(q) THEN enrichedCodes
       ELSE enrichedCodesAfterRanking(enrichedCodes,
              [i \in 1..Len(enrichedCodes) |->
                 calculateSimilarityScores(q, << enrichedCodes[i] >>)[1].score])
  /\ UNCHANGED << variant, embedModel, industryEmbeddings, writes >>
  /\ UNCHANGED overdue /\ UNCHANGED otherVars

\* messages.create resolves with resp.
Heu_createResolves(c, resp) ==
  /\ variant = "heuristic"
  /\ calls[c].pc = "awaitAI"
  /\ \E tried \in {RefineTry(calls[c].ranked, resp)} :
     \E final \in {Heu_matchIndustriesCatch(RefineCatch(tried, calls[c].ranked))} :
       calls' = [calls EXCEPT ![c] =
          [@ EXCEPT !.pc = final.pc, !.result = final.result, !.response = resp,
                    !.path = IF tried.threw \/ resp.json = "none" THEN "fallback"
                             ELSE IF validMatches(calls[c].ranked, resp.matches) = << >>
                             THEN "nothingKept" ELSE "accepted"]]
  /\ UNCHANGED << variant, enrichedCodes, embedModel, industryEmbeddings, writes >>
  /\ UNCHANGED overdue /\ UNCHANGED otherVars

\* messages.create rejects: the catch of refineWithAI returns the fallback.
Heu_createRejects(c) ==
  /\ variant = "heuristic"
  /\ calls[c].pc = "awaitAI"
  /\ LET candidates == calls[c].ranked
         final == Heu_matchIndustriesCatch(RefineCatch(Thrown, candidates))
     IN calls' = [calls EXCEPT ![c] =
          [@ EXCEPT !.pc = final.pc, !.result = final.result,
                    !.failed = "ai", !.path = "fallback"]]
  /\ UNCHANGED << variant, enrichedCodes, embedModel, industryEmbeddings, writes >>
  /\ UNCHANGED overdue /\ UNCHANGED otherVars

(***************************************************************************)
(* The constructor and loadEnrichedCodes (the same code in both variants). *)
(***************************************************************************)
Str_Web_dash_dev == << "W", "e", "b", "-", "d", "e", "v" >>
Str_Bank_comma_it == << "B", "a", "n", "k", ",", " ", "i", "t" >>
Str_dash_Farm == << "-", "F", "a", "r", "m" >>
Str_Web_tab_Shop_B == << "W", "e", "b", "\t", "S", "h", "o", "p", " ", "-", " ", "B" >>
Str_dev == << "d", "e", "v" >>
Str_bank == << "b", "a", "n", "k" >>

\* The names of the records of industryCodes.json.
MinimalNames ==
  {Str_Web_dash_dev, Str_Bank_comma_it, Str_dash_Farm, Str_Web_tab_Shop_B, Str_Shop, Str_empty}

\* Two codes of minimal records.
MinimalCodes == {Entry(1).code, Entry(2).code}

MinimalRecords == [code : MinimalCodes, name : MinimalNames]

\* A file is absent, present but not readable as JSON ("corrupt"), or holds
\* JSON of the expected type.
AbsentFile == [kind |-> "absent", value |-> << >>]

CorruptFile == [kind |-> "corrupt", value |-> << >>]

\* src/data/enrichedIndustryCodes.json
EnrichedFiles ==
  {AbsentFile, CorruptFile, [kind |-> "json", value |-> << Entry(1), Entry(2) >>]}

\* src/data/industryCodes.json
MinimalFiles ==
  {AbsentFile, CorruptFile}
  \cup {[kind |-> "json", value |-> recs] :
          recs \in UNION {[1..k -> MinimalRecords] : k \in 0..MaxRecords}}

\* /[,\s-]+/
NameSeparators == {",", "-"} \cup Whitespace

\* Faulty variant of keywordsOfName: the length filter is left out.
keywordsOfNameUnfiltered(name) == Split(ToLowerCase(name), NameSeparators)

\* ic.name.toLowerCase().split(/[,\s-]+/).filter((w) => w.length > 2)
keywordsOfName(name) ==
  SelectSeq(Split(ToLowerCase(name), NameSeparators), LAMBDA w : Len(w) > 2)

\* basicCodes.map((ic) => ({code, name, description: name, keywords}))
basicToEnriched(basicCodes) ==
  [i \in 1..Len(basicCodes) |->
     [code |-> basicCodes[i].code, name |-> basicCodes[i].name,
      description |-> basicCodes[i].name,
      keywords |-> keywordsOfName(basicCodes[i].name)]]

\* The try block of loadEnrichedCodes: the enriched file when it exists
\* (JSON.parse throws on a corrupt one), else the minimal file (readFileSync
\* throws on an absent one, JSON.parse on a corrupt one), converted.
loadTry(enriched, minimal) ==
  IF enriched.kind # "absent"
  THEN IF enriched.kind = "corrupt" THEN Thrown ELSE Ok(enriched.value)
  ELSE IF minimal.kind # "json" THEN Thrown ELSE Ok(basicToEnriched(minimal.value))

\* new IndustryMatchingService(): the field starts as [], loadEnrichedCodes
\* assigns it or throws 'Failed to load industry codes' out of the constructor.
Constructor ==
  /\ loader.pc = "new"
  /\ \E tried \in {loadTry(loader.enriched, loader.minimal)} :
       /\ loader' = [loader EXCEPT !.pc = IF tried.threw THEN "failed" ELSE "constructed"]
       /\ enrichedCodes' = IF tried.threw THEN enrichedCodes ELSE tried.value
  /\ UNCHANGED << variant, embedModel, industryEmbeddings, writes, calls, overdue,
                  server, requests, scorer, named >>

\* A process about to construct a matcher over some state of the two files.
LoaderInit ==
  /\ variant \in {"embedding", "heuristic"}
  /\ enrichedCodes = << >>
  /\ embedModel = NoEmbedModel
  /\ industryEmbeddings = EmptyMap
  /\ writes = [code \in {} |-> 0]
  /\ calls = [c \in Calls |-> IdleCall]
  /\ overdue = {}
  /\ loader \in [pc : {"new"}, enriched : EnrichedFiles, minimal : MinimalFiles]
  /\ server = NoServer
  /\ requests = NoRequests
  /\ scorer = NoScorer
  /\ named = NotNamed

LoaderNext == Constructor

LoaderSpec == LoaderInit /\ [][LoaderNext]_vars

(***************************************************************************)
(* POST /search (routes/companySearch.ts, routes/jobSearch.ts) and         *)
(* AllabolagScraper.  A process serves one of the two routes.  Of the      *)
(* request only the industryDescription is followed; the other search      *)
(* parameters are copied into the URL and play no part here.  A matcher    *)
(* call is followed by the capability calls it makes and the list it       *)
(* returns.                                                                *)
(***************************************************************************)
Requests == 1..MaxRequests

\* industryDescription of a request: not given, whitespace only, or text.
Descriptions == {"absent", "blank", "text"}

\* What matchIndustries may return to the route after embed resolved.
RouteResults == {<< >>, << Entry(1).code, Entry(4).code >>}

\* What a page fetch may come to: fetch rejects; the status is not OK;
\* a page without company links; a page with one company link.
FetchOutcomes == {"networkError", "notOk", "okEmpty", "okNames"}

\* Whether a fetch got a page ("ok") or failed: fetch rejected, or the
\* response was not OK.
settled(fetched) == IF fetched \in {"networkError", "notOk"} THEN "failed" ELSE "ok"

maxPagesOf(route) == IF route = "companySearch" THEN CompanySearchMaxPages ELSE JobSearchMaxPages

NewRequest ==
  [pc |-> "new", matcher |-> "notCalled", industryCodes |-> << >>, page |-> 0,
   urls |-> << >>, companies |-> << >>, lastFetch |-> "none"]

\* Faulty variant of buildUrl: the parameter is set for an empty list too.
buildUrlAlwaysIndustry(page, industryCodes) ==
  [proffIndustryCode |-> [set |-> TRUE, value |-> industryCodes],
   page |-> IF page > 1 THEN [set |-> TRUE, value |-> page]
            ELSE [set |-> FALSE, value |-> 0]]

\* AllabolagScraper.buildUrl: the two search parameters that depend on the
\* page and on the industry codes.
buildUrl(page, industryCodes) ==
  [proffIndustryCode |-> IF Len(industryCodes) > 0
                         THEN [set |-> TRUE, value |-> industryCodes]
                         ELSE [set |-> FALSE, value |-> << >>],
   page |-> IF page > 1 THEN [set |-> TRUE, value |-> page]
            ELSE [set |-> FALSE, value |-> 0]]

\* Faulty variant of scrapePageCatch: no catch, the error reaches searchCompanies.
scrapePageNoCatch(outcome) == outcome

\* The catch block of scrapePage.
scrapePageCatch(outcome) == IF outcome.threw THEN Ok(<< >>) ELSE outcome

\* The try block of scrapePage after fetch settled; the one company of page
\* number p is named p.
scrapePageTry(fetched, page) ==
  IF fetched \in {"networkError", "notOk"} THEN Thrown
  ELSE IF fetched = "okEmpty" THEN Ok(<< >>)
  ELSE Ok(<< page >>)

\* searchCompanies is called with the codes: the first URL is built and
\* fetched.
StartSearch(req, called, industryCodes) ==
  [req EXCEPT !.pc = "awaitFetch", !.matcher = called, !.industryCodes = industryCodes,
              !.page = 1, !.urls = << buildUrl(1, industryCodes) >>]

RequestsInOrder(r) ==
  requests[r].pc = "new" /\ (IF r = 1 THEN TRUE ELSE requests[r - 1].pc # "new")

\* The handler up to its first await on a capability.  companySearch.ts
\* answers 500 when an API key is missing; jobSearch.ts skips the matching
\* when OPENAI_API_KEY is missing.  With a description, a matcher is
\* constructed for this request (which loads the taxonomy, or throws)
\* and matchIndustries is called on it: a blank description returns [] at its
\* guard, any other finds the new instance's cache empty and calls embedMany.
Route_search(r, description, constructs) ==
  /\ RequestsInOrder(r)
  /\ IF server.route = "companySearch" /\ ~server.openaiKey
     THEN /\ requests' = [requests EXCEPT ![r] = [@ EXCEPT !.pc = "error500"]]
          /\ UNCHANGED server
     ELSE IF description = "absent" \/ ~server.openaiKey
     THEN /\ requests' = [requests EXCEPT ![r] = StartSearch(@, "notCalled", << >>)]
          /\ UNCHANGED server
     ELSE IF ~constructs
     THEN /\ requests' = [requests EXCEPT ![r] = [@ EXCEPT !.pc = "error500"]]
          /\ UNCHANGED server
     ELSE IF description = "blank"
     THEN /\ requests' = [requests EXCEPT ![r] = StartSearch(@, "returned", << >>)]
          /\ server' = [server EXCEPT !.loads = @ + 1]
     ELSE /\ requests' = [requests EXCEPT ![r] = [@ EXCEPT !.pc = "awaitEmbedMany"]]
          /\ server' = [server EXCEPT !.loads = @ + 1, !.embedManyCalls = @ + 1]
  /\ UNCHANGED matcherVars /\ UNCHANGED << overdue, loader, scorer, named >>

\* embedMany resolves: the request's matcher goes on to embed.
Route_embedManyResolves(r) ==
  /\ requests[r].pc = "awaitEmbedMany"
  /\ requests' = [requests EXCEPT ![r] = [@ EXCEPT !.pc = "awaitEmbed"]]
  /\ UNCHANGED matcherVars /\ UNCHANGED << overdue, loader, server, scorer, named >>

\* embedMany or embed rejects: matchIndustries returns [].
Route_embeddingRejects(r) ==
  /\ requests[r].pc \in {"awaitEmbedMany", "awaitEmbed"}
  /\ requests' = [requests EXCEPT ![r] = StartSearch(@, "returned", << >>)]
  /\ UNCHANGED matcherVars /\ UNCHANGED << overdue, loader, server, scorer, named >>

\* embed resolves and matchIndustries returns its codes.
Route_embedResolves(r, industryCodes) ==
  /\ requests[r].pc = "awaitEmbed"
  /\ requests' = [requests EXCEPT ![r] = StartSearch(@, "returned", industryCodes)]
  /\ UNCHANGED matcherVars /\ UNCHANGED << overdue, loader, server, scorer, named >>

\* The fetch of the current page settles: scrapePage returns the page's
\* names or [], searchCompanies pushes them, and either (after the delay)
\* builds and fetches the next URL or returns.  An error that left
\* scrapePage would be thrown anew by searchCompanies ("searchRejected") and
\* answered with 500.  lastFetch keeps whether the latest fetch failed.
Scraper_fetchSettles(r, fetched) ==
  /\ requests[r].pc = "awaitFetch"
  /\ \E pageCompanies \in {scrapePageCatch(scrapePageTry(fetched, requests[r].page))} :
       requests' = [requests EXCEPT ![r] =
         IF pageCompanies.threw
         THEN [@ EXCEPT !.pc = "searchRejected", !.lastFetch = settled(fetched)]
         ELSE IF @.page < maxPagesOf(server.route)
         THEN [@ EXCEPT !.companies = @ \o pageCompanies.value,
                        !.lastFetch = settled(fetched),
                        !.page = @ + 1,
                        !.urls = Append(@, buildUrl(requests[r].page + 1,
                                                    requests[r].industryCodes))]
         ELSE [@ EXCEPT !.companies = @ \o pageCompanies.value,
                        !.lastFetch = settled(fetched),
                        !.pc = "responded"]]
  /\ UNCHANGED matcherVars /\ UNCHANGED << overdue, loader, server, scorer, named >>

\* A process serving one of the two routes, with or without OPENAI_API_KEY.
RouteInit ==
  /\ variant = "embedding"
  /\ enrichedCodes = << >>
  /\ embedModel = NoEmbedModel
  /\ industryEmbeddings = EmptyMap
  /\ writes = [code \in {} |-> 0]
  /\ calls = [c \in Calls |-> IdleCall]
  /\ overdue = {}
  /\ loader = NoLoader
  /\ server \in [route : {"companySearch", "jobSearch"}, openaiKey : BOOLEAN,
                  loads : {0}, embedManyCalls : {0}]
  /\ requests = [r \in Requests |-> NewRequest]
  /\ scorer = NoScorer
  /\ named = NotNamed

RequestsAt(pcs) == {r \in Requests : requests[r].pc \in pcs}

RouteNext ==
  \/ \E r \in RequestsAt({"new"}), description \in Descriptions, constructs \in BOOLEAN :
        Route_search(r, description, constructs)
  \/ \E r \in RequestsAt({"awaitEmbedMany"}) : Route_embedManyResolves(r)
  \/ \E r \in RequestsAt({"awaitEmbedMany", "awaitEmbed"}) : Route_embeddingRejects(r)
  \/ \E r \in RequestsAt({"awaitEmbed"}), industryCodes \in RouteResults :
        Route_embedResolves(r, industryCodes)
  \/ \E r \in RequestsAt({"awaitFetch"}), fetched \in FetchOutcomes :
        Scraper_fetchSettles(r, fetched)

RouteSpec == RouteInit /\ [][RouteNext]_vars

(***************************************************************************)
(* The lexical scorer on its own: calculateSimilarityScores applied to a   *)
(* query over a taxonomy of one entry.  matchIndustries passes it the      *)
(* industryDescription as given, after the guard on blank queries.         *)
(***************************************************************************)
Str_sale_space == << "s", "a", "l", "e", " " >>
Str_space_web == << " ", "w", "e", "b" >>
Str_kit == << "k", "i", "t" >>
Str_it_to == << "i", "t", " ", "t", "o" >>
Str_shopping == << "s", "h", "o", "p", "p", "i", "n", "g" >>
Str_web_dev == << "w", "e", "b", " ", "d", "e", "v" >>
Str_webs == << "w", "e", "b", "s" >>
Str_web_code == << "w", "e", "b", " ", "c", "o", "d", "e" >>
Str_an_it_firm == << "a", "n", " ", "i", "t", " ", "f", "i", "r", "m" >>

ScorerQueries ==
  {Str_web, Str_space_web, Str_web_dev, Str_sale, Str_sale_space, Str_shop_farm,
   Str_shopping, Str_kit, Str_it, Str_it_to}

\* An entry with four keywords about one subject, and one whose description
\* holds a two-letter word.
WebEntry ==
  [code |-> NumEntries + 1, name |-> Str_Web_dev, description |-> Str_web_devs,
   keywords |-> << Str_web, Str_webs, Str_web_dev, Str_web_code >>]

ItEntry ==
  [code |-> NumEntries + 2, name |-> Str_Bank, description |-> Str_an_it_firm,
   keywords |-> << Str_it >>]

ScorerEntries == {Entry(1), Entry(2), Entry(3), Entry(4), WebEntry, ItEntry}

NewScorer(query, industry) ==
  [pc |-> "new", query |-> query, industry |-> industry,
   normalizedQuery |-> << >>, queryWords |-> << >>,
   exact |-> NaN, overlap |-> NaN, keyword |-> NaN, description |-> NaN, score |-> NaN]

\* calculateSimilarityScores(query) over the one entry: the four terms and
\* the score it returns.
Scorer_calculateSimilarityScores ==
  /\ scorer.pc = "new"
  /\ \E normalizedQuery \in {normalizedQueryOf(scorer.query)},
        queryWords \in {queryWordsOf(scorer.query)} :
       scorer' = [scorer EXCEPT
         !.pc = "scored",
         !.normalizedQuery = normalizedQuery,
         !.queryWords = queryWords,
         !.exact = exactTerm(normalizedQuery, queryWords, scorer.industry),
         !.overlap = overlapTerm(normalizedQuery, queryWords, scorer.industry),
         !.keyword = keywordTerm(normalizedQuery, queryWords, scorer.industry),
         !.description = descriptionTerm(normalizedQuery, queryWords, scorer.industry),
         !.score = calculateSimilarityScores(scorer.query, << scorer.industry >>)[1].score]
  /\ UNCHANGED matcherVars /\ UNCHANGED << overdue, loader, server, requests, named >>

ScorerInit ==
  /\ variant = "heuristic"
  /\ enrichedCodes = << >>
  /\ embedModel = NoEmbedModel
  /\ industryEmbeddings = EmptyMap
  /\ writes = [code \in {} |-> 0]
  /\ calls = [c \in Calls |-> IdleCall]
  /\ overdue = {}
  /\ loader = NoLoader
  /\ server = NoServer
  /\ requests = NoRequests
  /\ scorer \in {NewScorer(query, industry) : query \in ScorerQueries, industry \in ScorerEntries}
  /\ named = NotNamed

ScorerNext == Scorer_calculateSimilarityScores

ScorerSpec == ScorerInit /\ [][ScorerNext]_vars

(***************************************************************************)
(* Specification.                                                          *)
(***************************************************************************)
\* How many vectors embedMany answers for the taxonomy: one for every text,
\* or one fewer.
embedManyLength == IF embedModel.complete THEN Len(enrichedCodes) ELSE Len(enrichedCodes) - 1

\* The answers of the capabilities are drawn only where a call awaits them.
Awaiting(pc) == {c \in Calls : calls[c].pc = pc}

Next ==
  \/ \E c \in Awaiting("idle"), q \in BlankQueries \cup EmbeddingQueries :
        Emb_matchIndustries(c, q)
  \/ \E c \in Awaiting("awaitEmbedMany"), len \in {embedManyLength} :
        Emb_embedManyResolves(c, len)
  \/ \E c \in Awaiting("awaitEmbedMany") : Emb_embedManyRejects(c)
  \/ \E c \in Awaiting("awaitEmbed"), v \in QueryVectors : Emb_embedResolves(c, v)
  \/ \E c \in Awaiting("awaitEmbed") : Emb_embedRejects(c)
  \/ \E c \in Awaiting("idle"), q \in BlankQueries \cup HeuristicQueries :
        Heu_matchIndustries(c, q)
  \/ \E c \in Awaiting("awaitAI"), resp \in AIResponses : Heu_createResolves(c, resp)
  \/ \E c \in Awaiting("awaitAI") : Heu_createRejects(c)

Spec == Init /\ [][Next]_vars

(***************************************************************************)
(* The same calls with the passing of time.  No call site passes a timeout *)
(* or an abort signal to embedMany, embed or messages.create, and no timer *)
(* is set around them: when the time allowed for a capability call has     *)
(* passed, no step of the program is taken.  Time passes whatever the      *)
(* network does (weak fairness of Elapse); nothing obliges the capability  *)
(* to answer.                                                              *)
(***************************************************************************)
AwaitingCapability(c) == calls[c].pc \in {"awaitEmbedMany", "awaitEmbed", "awaitAI"}

\* The time allowed for the capability call of c passes without an answer.
Elapse(c) ==
  /\ AwaitingCapability(c)
  /\ c \notin overdue
  /\ overdue' = overdue \cup {c}
  /\ UNCHANGED matcherVars /\ UNCHANGED otherVars

TimedNext ==
  \/ Next
  \/ \E c \in Calls : Elapse(c)

TimedSpec == Init /\ [][TimedNext]_vars /\ \A c \in Calls : WF_vars(Elapse(c))

(***************************************************************************)
(* The same calls with getIndustryName, which scripts/quickIndustryTest.ts *)
(* calls for the codes that matchIndustries returned.  The first lookup of *)
(* an instance is followed.                                                *)
(***************************************************************************)
GetIndustryName(c) ==
  /\ calls[c].pc = "done"
  /\ calls[c].result # << >>
  /\ named = NotNamed
  /\ named' = << [code |-> calls[c].result[1],
                  name |-> getIndustryName(enrichedCodes, calls[c].result[1])] >>
  /\ UNCHANGED matcherVars /\ UNCHANGED << overdue, loader, server, requests, scorer >>

NamedNext ==
  \/ Next
  \/ \E c \in Calls : GetIndustryName(c)

NamedSpec == Init /\ [][NamedNext]_vars

(***************************************************************************)
(* Properties.                                                             *)
(***************************************************************************)
Done(c) == calls[c].pc = "done"

Embedding == variant = "embedding"

Heuristic == variant = "heuristic"

\* The vector the capability gives the entry that carries code.
EmbeddingOfCode(code) ==
  embedModel.vectors[(((CHOOSE i \in 1..Len(enrichedCodes) : enrichedCodes[i].code = code) - 1)
                      % Len(embedModel.vectors)) + 1]

\* A vector of the dimension of the vectors the capability gives the taxonomy.
SameDimension(vector) ==
  \A k \in 1..Len(embedModel.vectors) : Len(vector) = Len(embedModel.vectors[k])

\* The similarity of a call's query to the entry that carries code.
SimilarityOf(c, code) == cosineSimilarity(calls[c].queryEmbedding, EmbeddingOfCode(code))

\* C1: matchIndustries never throws or rejects, in either variant: whatever
\* the capabilities do (resolve, reject, answer malformed data), no call ends
\* rejected, and a call that ends has resolved to a list of codes.
C1_NeverRejects ==
  \A c \in Calls :
     /\ calls[c].pc # "rejected"
     /\ Done(c) => \A i \in 1..Len(calls[c].result) : calls[c].result[i] \in Int

\* A call of the embedding variant that got a malformed query vector, threw
\* inside its try block and still resolved.
C1_Witness ==
  \E c \in Calls :
     /\ Embedding /\ Done(c) /\ calls[c].path = "threw"
     /\ calls[c].failed = "none" /\ calls[c].queryEmbedding = Vec_short

\* C2: a call with an empty or whitespace-only query returns [] in its first
\* step, without calling embedMany, embed or the generative capability, and
\* leaves the embedding cache as it was.
C2_BlankQueryNoComputation ==
  [][\A c \in Calls :
       (calls[c].pc = "idle" /\ calls'[c].pc # "idle" /\ Trim(calls'[c].query) = << >>)
       => /\ calls'[c].pc = "done"
          /\ calls'[c].result = << >>
          /\ ~calls'[c].usedEmbedMany /\ ~calls'[c].usedEmbed /\ ~calls'[c].usedAI
          /\ industryEmbeddings' = industryEmbeddings
          /\ writes' = writes]_vars

\* A whitespace-only query answered while the cache is populated.
C2_Witness ==
  \E c \in Calls :
     /\ Done(c) /\ calls[c].path = "blank" /\ calls[c].query = Str_blank
     /\ MapSize(industryEmbeddings) > 0

\* C3: every code a call returns is the code of an entry of the taxonomy.
C3_ResultWithinTaxonomy ==
  \A c \in Calls : Done(c) => Range(calls[c].result) \subseteq Codes(enrichedCodes)

\* A refinement that was accepted although the answer named a foreign code.
C3_Witness ==
  \E c \in Calls :
     /\ Heuristic /\ Done(c) /\ calls[c].path = "accepted"
     /\ \E i \in 1..Len(calls[c].response.matches) :
           calls[c].response.matches[i].code \notin Codes(enrichedCodes)

\* C4: in the embedding variant a call returns at most 8 codes.
C4_EmbeddingAtMostEight ==
  \A c \in Calls : (Embedding /\ Done(c)) => Len(calls[c].result) <= MaxResults

\* A call that returned 8 codes while more than 8 entries were similar enough.
C4_Witness ==
  \E c \in Calls :
     /\ Embedding /\ Done(c) /\ calls[c].path = "ranked"
     /\ Len(calls[c].result) = MaxResults
     /\ Cardinality({i \in 1..Len(enrichedCodes) :
           AboveSimilarityThreshold(SimilarityOf(c, enrichedCodes[i].code))}) > MaxResults

\* C5 (as claimed): in the heuristic variant a call returns at most 8 codes
\* on every path.
C5_HeuristicAtMostEight ==
  \A c \in Calls : (Heuristic /\ Done(c)) => Len(calls[c].result) <= MaxResults

\* C6 (as claimed): in the heuristic variant, over a taxonomy of unique codes,
\* a call returns no code twice.
C6_HeuristicNoDuplicates ==
  \A c \in Calls :
     (Heuristic /\ Done(c) /\ NoDuplicates(CodesOf(enrichedCodes)))
     => NoDuplicates(calls[c].result)

\* C7: in the embedding variant the returned codes are in descending order of
\* cosine similarity to the query: no position has a lower similarity than
\* the next one.
C7_DescendingSimilarity ==
  \A c \in Calls :
     (Embedding /\ Done(c) /\ calls[c].path = "ranked")
     => \A i \in 1..(Len(calls[c].result) - 1) :
           ~RatGT(SimilarityOf(c, calls[c].result[i + 1]), SimilarityOf(c, calls[c].result[i]))

\* A result whose first code is strictly more similar than its last one.
C7_Witness ==
  \E c \in Calls :
     /\ Embedding /\ Done(c) /\ calls[c].path = "ranked"
     /\ Len(calls[c].result) >= 2
     /\ RatGT(SimilarityOf(c, calls[c].result[1]),
              SimilarityOf(c, calls[c].result[Len(calls[c].result)]))

\* The capability threw for this call: embedMany or embed rejected.
EmbeddingFailed(c) == Embedding /\ calls[c].failed \in {"embedMany", "embed"}

Refined(c) == Heuristic /\ Done(c) /\ calls[c].usedAI /\ calls[c].failed = "none"

\* The answer is no text, holds no JSON, or holds JSON the schema rejects.
Unparseable(resp) == resp.kind # "text" \/ resp.json # "matches" \/ ~SchemaAccepts(resp)

\* The answer names a code that is not among the candidates.
NamesAbsentCode(c) ==
  /\ calls[c].response.json = "matches"
  /\ \E i \in 1..Len(calls[c].response.matches) :
        calls[c].response.matches[i].code \notin Range(CodesOf(calls[c].ranked))

\* The matches of the answer that name a candidate with relevance >= 6.
KeptMatches(c) ==
  {i \in 1..Len(calls[c].response.matches) :
     /\ calls[c].response.matches[i].code \in Range(CodesOf(calls[c].ranked))
     /\ calls[c].response.matches[i].relevance >= MinRelevance}

C10_CacheWrittenOnce == \A code \in DOMAIN writes : writes[code] <= 1

\* C11 (as claimed): in every reachable state of the embedding variant the
\* cache is empty or maps every taxonomy code to the vector the capability
\* computes for that entry's searchable text, whatever embedMany answered.
C11_CacheNeverCorrupted ==
  Embedding =>
    \/ industryEmbeddings = EmptyMap
    \/ /\ DOMAIN industryEmbeddings = Codes(enrichedCodes)
       /\ \A code \in Codes(enrichedCodes) : industryEmbeddings[code] = EmbeddingOfCode(code)

(***************************************************************************)
(* Properties of the constructor.                                          *)
(***************************************************************************)
Constructed == loader.pc = "constructed"

ConstructionFailed == loader.pc = "failed"

\* C13 (as claimed): construction fails exactly when neither dataset file can
\* be found and parsed, and a constructed matcher holds the whole dataset it
\* was loaded from.
C13_FailsIffNoDataset ==
  /\ ConstructionFailed <=> /\ loader.pc # "new"
                            /\ loader.enriched.kind # "json"
                            /\ loader.minimal.kind # "json"
  /\ Constructed =>
       Len(enrichedCodes) = IF loader.enriched.kind = "json"
                            THEN Len(loader.enriched.value)
                            ELSE Len(loader.minimal.value)

\* The maximal runs of non-separator characters of s, as (first, last) pairs.
Runs(s, seps) ==
  {run \in (1..Len(s)) \X (1..Len(s)) :
     /\ run[1] <= run[2]
     /\ \A i \in run[1]..run[2] : s[i] \notin seps
     /\ (run[1] = 1 \/ s[run[1] - 1] \in seps)
     /\ (run[2] = Len(s) \/ s[run[2] + 1] \in seps)}

\* The runs of more than 2 characters, and the one that starts k-th.
LongRuns(s, seps) == {run \in Runs(s, seps) : run[2] - run[1] + 1 > 2}

KthRun(runs, k) ==
  CHOOSE run \in runs : Cardinality({other \in runs : other[1] < run[1]}) = k - 1

\* C14: with the enriched file absent and the minimal file present, the
\* loaded taxonomy has one entry per minimal record, in the same order, with
\* the record's code and name, the name as description, and as keywords the
\* tokens of the lower-cased name between commas, whitespace and hyphens that
\* are longer than 2 characters, in their order in the name.
C14_MinimalDatasetConverted ==
  (Constructed /\ loader.enriched.kind = "absent") =>
     /\ Len(enrichedCodes) = Len(loader.minimal.value)
     /\ \A i \in 1..Len(enrichedCodes) :
          \E rec \in {loader.minimal.value[i]}, entry \in {enrichedCodes[i]} :
            \E lower \in {ToLowerCase(rec.name)} :
              \E runs \in {LongRuns(lower, {",", "-", " ", "\t"})} :
                /\ entry.code = rec.code
                /\ entry.name = rec.name
                /\ entry.description = rec.name
                /\ Len(entry.keywords) = Cardinality(runs)
                /\ \A k \in 1..Len(entry.keywords) :
                      entry.keywords[k] =
                        SubSeq(lower, KthRun(runs, k)[1], KthRun(runs, k)[2])

\* A name with a tab, a hyphen between spaces and a one-letter token was
\* converted: two keywords are left.
C14_Witness ==
  /\ Constructed /\ loader.enriched.kind = "absent"
  /\ \E i \in 1..Len(enrichedCodes) :
        /\ enrichedCodes[i].name = Str_Web_tab_Shop_B
        /\ enrichedCodes[i].keywords = << Str_web, Str_shop >>

(***************************************************************************)
(* Properties of the route and the scraper.                                *)
(***************************************************************************)
\* C12 (as claimed): in one process the taxonomy is loaded at most once and
\* embedMany is invoked at most once, however many requests carry an
\* industryDescription.
C12_LoadedAndEmbeddedOnce == server.loads <= 1 /\ server.embedManyCalls <= 1

\* The search of request r runs: searchCompanies was called and has not rejected.
Searching(r) == requests[r].pc \in {"awaitFetch", "responded"}

\* C16: when matchIndustries returned the empty list to a request, the
\* request is in its Allabolag search (or has answered from it), it has built
\* at least one URL, and none of its URLs carries proffIndustryCode.
C16_EmptyMatchSearchesUnfiltered ==
  \A r \in Requests :
     (requests[r].matcher = "returned" /\ requests[r].industryCodes = << >>)
     => /\ Searching(r)
        /\ Len(requests[r].urls) >= 1
        /\ \A i \in 1..Len(requests[r].urls) : ~requests[r].urls[i].proffIndustryCode.set

\* A request whose matcher returned [] has answered after three page fetches,
\* while another request searched with industry codes.
C16_Witness ==
  \E r, other \in Requests :
     /\ requests[r].matcher = "returned" /\ requests[r].industryCodes = << >>
     /\ requests[r].pc = "responded" /\ Len(requests[r].urls) = JobSearchMaxPages
     /\ requests[other].matcher = "returned" /\ requests[other].industryCodes # << >>
     /\ \A i \in 1..Len(requests[other].urls) : requests[other].urls[i].proffIndustryCode.set

\* C19: whenever a page fetch of a request settles, searchCompanies does not
\* reject; a fetch that failed (network error or non-OK status) adds no name;
\* and the next page, one higher, is requested until maxPages pages have been
\* requested, after which searchCompanies resolves with the names.
C19_ScraperNeverRejects ==
  [][\A r \in Requests :
       (requests[r].pc = "awaitFetch" /\ requests'[r] # requests[r])
       => /\ requests'[r].pc \in {"awaitFetch", "responded"}
          /\ requests'[r].lastFetch = "failed"
               => requests'[r].companies = requests[r].companies
          /\ IF requests[r].page < maxPagesOf(server.route)
             THEN /\ requests'[r].pc = "awaitFetch"
                  /\ requests'[r].page = requests[r].page + 1
                  /\ Len(requests'[r].urls) = requests'[r].page
                  /\ requests'[r].urls[requests'[r].page].page.value = requests'[r].page
             ELSE /\ requests'[r].pc = "responded"
                  /\ requests'[r].page = maxPagesOf(server.route)
                  /\ Len(requests'[r].urls) = maxPagesOf(server.route)]_vars

\* A search whose second page was fetched and whose third fetch failed has
\* resolved with the one name of the second page.
C19_Witness ==
  \E r \in Requests :
     /\ requests[r].pc = "responded"
     /\ Len(requests[r].urls) = JobSearchMaxPages
     /\ requests[r].lastFetch = "failed"
     /\ requests[r].companies = << JobSearchMaxPages - 1 >>

(***************************************************************************)
(* Properties of the calls in time.                                        *)
(***************************************************************************)
\* C15 (as claimed): a call whose capability call has not answered within the
\* time allowed eventually returns, and returns the heuristic-only result:
\* the first codes of the lexical ranking of its query.
C15_OverdueCallFallsBack ==
  \A c \in Calls :
     (c \in overdue) ~>
        (Done(c) /\ calls[c].result =
                      HeuristicFallback(TopCandidates(calls[c].query, enrichedCodes)))

(***************************************************************************)
(* Properties of the ranking.                                              *)
(***************************************************************************)
\* Entry number i of the taxonomy is among the first k codes of the result of c.
AmongFirst(c, i, k) ==
  \E p \in 1..Min(k, Len(calls[c].result)) : calls[c].result[p] = enrichedCodes[i].code

\* C17 (as claimed): when the name of an entry contains the (non-blank) query
\* of a call as a substring, the result of the call holds the entry's code
\* within its first 3 positions.
C17_NameMatchInTopThree ==
  \A c \in Calls :
     (Done(c) /\ ~IsBlankQuery(calls[c].query))
     => \A i \in 1..Len(enrichedCodes) :
           Includes(enrichedCodes[i].name, calls[c].query) => AmongFirst(c, i, 3)

\* How many entries the heuristic ranking puts before entry i: those that
\* score more, and those that score the same and come earlier in the taxonomy.
RankedAhead(scored, i) ==
  Cardinality({j \in 1..Len(scored) :
                 \/ RatGT(scored[j].score, scored[i].score)
                 \/ (~RatGT(scored[i].score, scored[j].score) /\ j < i)})

\* The result of c is the heuristic ranking: the refinement was skipped, or it
\* fell back on an unusable answer or a failed call.
HeuristicOrderReturned(c) == Heuristic /\ Done(c) /\ calls[c].path \in {"skipped", "fallback"}

\* C17 (amended): in the heuristic variant, an entry whose lower-cased name
\* contains the lower-cased query scores at least 1.0; when the result is the
\* heuristic ranking, the entry's code stands at position k + 1, where k is
\* the number of entries ranked ahead of it, provided k < 8.  So it is within
\* the first 3 positions exactly when fewer than 3 entries are ranked ahead.
C17_NameMatchRankedByScore ==
  \A c \in Calls :
     (HeuristicOrderReturned(c) /\ ~IsBlankQuery(calls[c].query))
     => \A i \in 1..Len(enrichedCodes) :
          Includes(ToLowerCase(enrichedCodes[i].name), ToLowerCase(calls[c].query))
          => \E scored \in {calculateSimilarityScores(calls[c].query, enrichedCodes)} :
               /\ ~RatGT([num |-> 1, den |-> 1], scored[i].score)
               /\ \E ahead \in {RankedAhead(scored, i)} :
                    /\ ahead < MaxResults =>
                          /\ Len(calls[c].result) > ahead
                          /\ calls[c].result[ahead + 1] = enrichedCodes[i].code
                    /\ AmongFirst(c, i, 3) <=> ahead < 3

\* The query "hop" is part of the name of eight entries that all score the
\* capped 2.0: the fourth of them is returned, at position 4.
C17_Witness ==
  \E c \in Calls :
     /\ HeuristicOrderReturned(c) /\ calls[c].query = Str_hop
     /\ Len(calls[c].result) = MaxResults
     /\ \E i \in 1..Len(enrichedCodes) :
           /\ Includes(enrichedCodes[i].name, Str_hop)
           /\ calls[c].result[4] = enrichedCodes[i].code

(***************************************************************************)
(* Properties across calls.                                                *)
(***************************************************************************)
\* The cache after a full answer of embedMany.
FullCache == [code \in Codes(enrichedCodes) |-> EmbeddingOfCode(code)]

\* What a call returns for a query vector when it is the only call ever made
\* on the instance.
SoleCallResult(queryEmbedding) ==
  IF ScoringThrows(enrichedCodes, FullCache, queryEmbedding) THEN << >>
  ELSE CodesOf(topMatches(scoredIndustries(enrichedCodes, FullCache, queryEmbedding)))

\* The capability answers embedMany in full, and it answered every call made of it.
CapabilityAnswered ==
  embedModel.complete /\ \A d \in Calls : calls[d].failed = "none"

\* C18: in the embedding variant, with a capability that answers, a call
\* returns what the same query (embedded to the same vector) returns as the
\* only call on the instance, whatever other calls came before it or run
\* beside it; two calls with one query and one query vector return the same
\* sequence.
C18_ResultDependsOnQueryOnly ==
  (Embedding /\ CapabilityAnswered)
  => /\ \A c \in Calls :
          (Done(c) /\ ~IsBlankQuery(calls[c].query))
          => calls[c].result = SoleCallResult(calls[c].queryEmbedding)
     /\ \A c, d \in Calls :
          (Done(c) /\ Done(d) /\ calls[c].query = calls[d].query
             /\ calls[c].queryEmbedding = calls[d].queryEmbedding)
          => calls[c].result = calls[d].result

\* Two calls with different queries raced to populate the cache (both called
\* embedMany) and returned different non-empty lists.
C18_Witness ==
  /\ Embedding /\ CapabilityAnswered
  /\ \E c, d \in Calls :
        /\ Done(c) /\ Done(d)
        /\ calls[c].usedEmbedMany /\ calls[d].usedEmbedMany
        /\ calls[c].query # calls[d].query
        /\ calls[c].result # << >> /\ calls[d].result # << >>
        /\ calls[c].result # calls[d].result

\* C20: in the heuristic variant, when the refinement runs and the generative
\* call itself fails, the call returns the first min(8, n) of the n heuristic
\* candidates of its query, in heuristic order.
C20_FailedCallGivesHeuristicList ==
  \A c \in Calls :
     (Heuristic /\ calls[c].failed = "ai")
     => \E candidates \in {CodesOf(TopCandidates(calls[c].query, enrichedCodes))} :
          /\ Done(c)
          /\ Len(calls[c].result) = Min(MaxResults, Len(candidates))
          /\ \A p \in 1..Len(calls[c].result) : calls[c].result[p] = candidates[p]

\* The generative call failed for a query with 15 candidates: 8 are returned.
C20_Witness ==
  \E c \in Calls :
     /\ Heuristic /\ Done(c) /\ calls[c].failed = "ai"
     /\ Len(calls[c].ranked) = MaxCandidates
     /\ Len(calls[c].result) = MaxResults

(***************************************************************************)
(* Properties of the refinement's short-circuit.                           *)
(***************************************************************************)
\* The candidate set is small or its top score is very high: at most 3
\* candidates, or the first one scores more than 1.5.
FewOrSure(candidates) ==
  \/ Len(candidates) <= 3
  \/ candidates[1].score.num * 10 > 15 * candidates[1].score.den

\* C21: in the heuristic variant, whenever a call is made with a non-blank
\* query whose candidate set has at most 3 entries or a top score above 1.5,
\* the call returns in that step, without a generative call, the first
\* min(8, n) of its n candidates in heuristic-score order; and a call that
\* has returned makes no call afterwards.
C21_ShortCircuitSkipsRefinement ==
  [][Heuristic =>
       \A c \in Calls :
          /\ (calls[c].pc = "idle" /\ calls'[c].pc # "idle" /\ ~IsBlankQuery(calls'[c].query))
               => \E candidates \in {TopCandidates(calls'[c].query, enrichedCodes)} :
                    FewOrSure(candidates)
                    => /\ calls'[c].pc = "done"
                       /\ ~calls'[c].usedAI
                       /\ calls'[c].response = NoResponse
                       /\ Len(calls'[c].result) = Min(8, Len(candidates))
                       /\ \A p \in 1..Len(calls'[c].result) :
                             calls'[c].result[p] = candidates[p].code
          /\ calls[c].pc = "done" => calls'[c] = calls[c]]_vars

\* More than 8 candidates whose first scores above 1.5: the refinement was
\* skipped and the first 8 candidates were returned.
C21_Witness ==
  \E c \in Calls :
     /\ Heuristic /\ Done(c) /\ calls[c].path = "skipped" /\ ~calls[c].usedAI
     /\ Len(calls[c].ranked) > MaxResults
     /\ RatGT(calls[c].ranked[1].score, [num |-> 15, den |-> 10])
     /\ calls[c].result = Take(CodesOf(calls[c].ranked), MaxResults)

(***************************************************************************)
(* Properties of the embedding ranking.                                    *)
(***************************************************************************)
\* Both capability calls of c succeeded: embedMany gave a vector for every
\* text, neither call threw, and embed gave a vector of the dimension of the
\* taxonomy's vectors.
BothCallsSucceeded(c) ==
  /\ Embedding /\ Done(c) /\ ~IsBlankQuery(calls[c].query)
  /\ embedModel.complete
  /\ calls[c].failed = "none"
  /\ SameDimension(calls[c].queryEmbedding)

\* The similarity of the query of c to every entry, by code.
Similarities(c) == [code \in Codes(enrichedCodes) |-> SimilarityOf(c, code)]

\* The codes of the entries whose similarity to the query of c exceeds 0.3.
SimilarCodes(c) ==
  {code \in Codes(enrichedCodes) : AboveSimilarityThreshold(SimilarityOf(c, code))}

\* C22: in the embedding variant, when both capability calls succeeded, the
\* result holds only entries whose similarity exceeds 0.3, none twice; it
\* holds 8 of them, or all of them when they are fewer than 8; and no entry
\* left out is more similar to the query than an entry returned.
C22_TopEightAboveThreshold ==
  \A c \in Calls :
     BothCallsSucceeded(c)
     => \E similarity \in {Similarities(c)} :
        \E similar \in {{code \in DOMAIN similarity :
                           AboveSimilarityThreshold(similarity[code])}} :
          /\ Range(calls[c].result) \subseteq similar
          /\ NoDuplicates(calls[c].result)
          /\ Len(calls[c].result) = Min(8, Cardinality(similar))
          /\ \A omitted \in Codes(enrichedCodes) \ Range(calls[c].result) :
                \A p \in 1..Len(calls[c].result) :
                   ~RatGT(similarity[omitted], similarity[calls[c].result[p]])

\* One call returned all of the fewer than 8 entries above the threshold and
\* left out entries below it; another returned 8 of more than 8.
C22_Witness ==
  \E c, d \in Calls :
     /\ BothCallsSucceeded(c) /\ BothCallsSucceeded(d)
     /\ Len(calls[c].result) > 0 /\ Len(calls[c].result) < MaxResults
     /\ Range(calls[c].result) = SimilarCodes(c)
     /\ Len(calls[d].result) = MaxResults
     /\ Cardinality(SimilarCodes(d)) > MaxResults

(***************************************************************************)
(* Properties of the lexical scorer.                                       *)
(***************************************************************************)
Scored == scorer.pc = "scored"

\* Query word qWord matches word as term 2 matches: one contains the other,
\* or they are similar.
FuzzyMatch(qWord, word) ==
  Includes(word, qWord) \/ Includes(qWord, word) \/ areSimilar(qWord, word)

\* The query words that match, as in term 2, a word longer than 2 of the
\* description.
DescriptionOverlap(queryWords, industry) ==
  LET words == LongWords(Split(ToLowerCase(industry.description), Whitespace))
  IN SelectSeq(queryWords, LAMBDA qWord :
       \E j \in 1..Len(words) : FuzzyMatch(qWord, words[j]))

\* C23 (as claimed): term 4 is term 2 restricted to the description: the
\* share of query words that match a word longer than 2 of the description,
\* times 0.5; an entry whose description has no word matching a query word
\* gets nothing from term 4.
C23_DescriptionTermAsOverlap ==
  Scored =>
    \E matched \in {DescriptionOverlap(scorer.queryWords, scorer.industry)} :
      /\ scorer.description.num = 5 * Len(matched)
      /\ Len(matched) = 0 => scorer.description.num = 0

\* C24 (as claimed): none of the terms 2, 3 and 4 adds more to a score than
\* the 1.0 of the exact-containment term.
C24_ExactTermIsHighest ==
  Scored =>
    /\ scorer.exact.num \in {0, scorer.exact.den}
    /\ scorer.overlap.num <= scorer.overlap.den
    /\ scorer.keyword.num <= scorer.keyword.den
    /\ scorer.description.num <= scorer.description.den

\* The same number: neither is greater, and both or neither are NaN.
RatEq(a, b) == IsNaN(a) = IsNaN(b) /\ ~RatGT(a, b) /\ ~RatGT(b, a)

\* C27 (as claimed): a query scores every entry as its trimmed form does, so
\* that matchIndustries(q) and matchIndustries(trim(q)) rank alike.
C27_QueryTreatedAsTrimmed ==
  Scored =>
    RatEq(scorer.score,
          calculateSimilarityScores(Trim(scorer.query), << scorer.industry >>)[1].score)

\* C28: for a query without a word longer than 2 characters, the two ratio
\* terms add 0 to the score of every entry, nothing is divided by zero (no
\* term and no score is NaN), and the score lies between 0 and 2.0.
C28_NoTokensNoRatioTerms ==
  (Scored /\ Len(scorer.queryWords) = 0) =>
    /\ ~IsNaN(scorer.overlap) /\ scorer.overlap.num = 0
    /\ ~IsNaN(scorer.description) /\ scorer.description.num = 0
    /\ ~IsNaN(scorer.score)
    /\ scorer.score.num >= 0
    /\ scorer.score.num <= 2 * scorer.score.den

\* The query "it", which has no word longer than 2 characters, was scored
\* against an entry whose description and keywords contain it: 1.0 + 0.3.
C28_Witness ==
  /\ Scored /\ Len(scorer.queryWords) = 0
  /\ scorer.query = Str_it
  /\ scorer.exact.num = scorer.exact.den
  /\ scorer.score.num * 10 = 13 * scorer.score.den

(***************************************************************************)
(* Properties of the order of a ranking.                                   *)
(***************************************************************************)
\* The call ranked entries: by similarity in the embedding variant, by
\* heuristic score in the other.
HasRanking(c) == calls[c].pc # "idle" /\ Len(calls[c].ranked) > 0

\* The relevance by which position p of the ranking of c was ordered.
RelevanceAt(c, p) ==
  IF Embedding THEN calls[c].ranked[p].similarity ELSE calls[c].ranked[p].score

\* Where the entry at position p of the ranking of c stands in the taxonomy.
TaxonomyPlaceAt(c, p) ==
  CHOOSE i \in 1..Len(enrichedCodes) : enrichedCodes[i].code = calls[c].ranked[p].code

\* C26 (as claimed): a ranking is strictly descending: each of its entries
\* has a strictly greater relevance than the next one, so no two are equal.
C26_StrictlyDescending ==
  \A c \in Calls :
     HasRanking(c)
     => \A p \in 1..(Len(calls[c].ranked) - 1) :
           RatGT(RelevanceAt(c, p), RelevanceAt(c, p + 1))

\* C26 (amended): a ranking is descending, not strictly: no entry has a
\* greater relevance than the one before it, and of two neighbours of equal
\* relevance the first stands earlier in the taxonomy.
C26_DescendingTiesInTaxonomyOrder ==
  \A c \in Calls :
     HasRanking(c)
     => \A p \in 1..(Len(calls[c].ranked) - 1) :
           /\ ~RatGT(RelevanceAt(c, p + 1), RelevanceAt(c, p))
           /\ ~RatGT(RelevanceAt(c, p), RelevanceAt(c, p + 1))
                => TaxonomyPlaceAt(c, p) < TaxonomyPlaceAt(c, p + 1)

\* A heuristic ranking that begins with two entries of equal score and ends
\* with an entry of lower score.
C26_Witness ==
  \E c \in Calls :
     /\ Heuristic /\ HasRanking(c) /\ Len(calls[c].ranked) >= 3
     /\ ~RatGT(RelevanceAt(c, 1), RelevanceAt(c, 2))
     /\ RatGT(RelevanceAt(c, 2), RelevanceAt(c, Len(calls[c].ranked)))

(***************************************************************************)
(* Properties of a failed population of the cache.                         *)
(***************************************************************************)
\* Call c has its embedMany rejected in this step.
EmbedManyThrows(c) ==
  calls[c].pc = "awaitEmbedMany" /\ calls'[c].failed = "embedMany"

\* Call c is made in this step with a non-blank query.
Starts(c) ==
  calls[c].pc = "idle" /\ calls'[c].pc # "idle" /\ ~IsBlankQuery(calls'[c].query)

\* Call c returns in this step after embedMany and embed answered it, the
\* first in full and the second with a vector of the taxonomy's dimension.
ReturnsAfterPopulation(c) ==
  /\ calls[c].pc = "awaitEmbed" /\ calls'[c].pc = "done"
  /\ calls'[c].usedEmbedMany /\ calls'[c].failed = "none"
  /\ embedModel.complete
  /\ SameDimension(calls'[c].queryEmbedding)

\* C29: in the embedding variant, a call whose embedMany throws returns []
\* and leaves the cache as it was (empty, unless another call has filled
\* it); a call made while the cache is empty calls embedMany, whatever
\* failed before; and when embedMany and embed then answer it, it returns
\* the ranking of its query over the full cache.
C29_FailedPopulationNotSticky ==
  [][Embedding =>
       \A c \in Calls :
          /\ EmbedManyThrows(c)
               => /\ calls'[c].pc = "done" /\ calls'[c].result = << >>
                  /\ industryEmbeddings' = industryEmbeddings
                  /\ writes' = writes
          /\ (Starts(c) /\ industryEmbeddings = EmptyMap)
               => calls'[c].pc = "awaitEmbedMany" /\ calls'[c].usedEmbedMany
          /\ ReturnsAfterPopulation(c)
               => /\ industryEmbeddings' = FullCache
                  /\ calls'[c].result = SoleCallResult(calls'[c].queryEmbedding)]_vars

\* The first call had its embedMany rejected and returned [] without a write
\* to the cache; the second call populated the cache (one write per code) and
\* returned a ranking.
C29_Witness ==
  /\ Embedding /\ embedModel.complete
  /\ Done(1) /\ calls[1].failed = "embedMany" /\ calls[1].result = << >>
  /\ Done(2) /\ calls[2].usedEmbedMany /\ calls[2].failed = "none"
  /\ calls[2].path = "ranked" /\ calls[2].result # << >>
  /\ industryEmbeddings = FullCache
  /\ \A code \in DOMAIN writes : writes[code] = 1

(***************************************************************************)
(* Properties of the heuristic variant's result.                           *)
(***************************************************************************)
\* Some entry of the taxonomy scores more than 0.1 for query.
SomeEntryScores(query) ==
  \E i \in 1..Len(enrichedCodes) :
     \E score \in {calculateSimilarityScores(query, << enrichedCodes[i] >>)[1].score} :
        score.num * 10 > score.den

\* C30: in the heuristic variant a call with a non-blank query returns the
\* empty list exactly when no entry of the taxonomy scores more than 0.1 for
\* the query, whether the refinement was skipped, accepted, kept nothing,
\* fell back on an unusable answer or on a failed call.  Step by step: a call
\* has no candidate exactly when no entry scores more than 0.1; its
\* candidates stay what they were; and it returns the empty list exactly
\* when it had no candidate.
C30_EmptyIffNoCandidate ==
  [][Heuristic =>
       \A c \in Calls :
          /\ (calls[c].pc = "idle" /\ calls'[c].pc # "idle" /\ ~IsBlankQuery(calls'[c].query))
               => (calls'[c].ranked = << >> <=> ~SomeEntryScores(calls'[c].query))
          /\ calls[c].pc # "idle"
               => calls'[c].ranked = calls[c].ranked /\ calls'[c].query = calls[c].query
          /\ (calls'[c].pc = "done" /\ ~IsBlankQuery(calls'[c].query))
               => (calls'[c].result = << >> <=> calls'[c].ranked = << >>)]_vars

\* The non-blank query "it" is contained in no entry and has no word longer
\* than 2 characters: the call returned [] without a generative call.
C30_Witness ==
  \E c \in Calls :
     /\ Heuristic /\ Done(c) /\ calls[c].query = Str_it
     /\ calls[c].path = "none" /\ ~calls[c].usedAI
     /\ calls[c].result = << >>

(***************************************************************************)
(* Properties of the taxonomy at runtime.                                  *)
(***************************************************************************)
\* C25: after construction no step of a matchIndustries call (successful or
\* failing), of the population of the embedding cache or of getIndustryName
\* changes the taxonomy: it holds the same entries in the same order, each
\* with its code, name, description and keywords.
C25_TaxonomyReadOnly ==
  [][/\ enrichedCodes' = enrichedCodes
     /\ enrichedCodes \in Taxonomies]_vars

\* After a failed and a successful call, a populated cache and a lookup of a
\* returned code's name, the taxonomy is the one that was loaded.
C25_Witness ==
  /\ Embedding
  /\ \E c, d \in Calls :
        /\ Done(c) /\ calls[c].path = "threw"
        /\ Done(d) /\ calls[d].path = "ranked"
        /\ calls[d].result[1] # enrichedCodes[1].code
  /\ MapSize(industryEmbeddings) > 0
  /\ named # NotNamed
  /\ enrichedCodes \in Taxonomies

====
